---- MODULE Spec2Model ----
(***************************************************************************)
(* Model of the BLAPL loyalty app: the in-memory ledger engine of App.js   *)
(* (AppProvider: performCheckIn, redeemCoupon, deleteCheckIn, the audit    *)
(* log, the id generator, the page reload from localStorage) and the       *)
(* remote check-in transaction of firebase.js (fbPerformCheckIn).          *)
(*                                                                         *)
(* Time.  Every timestamp is a count of ticks of MsPerTick milliseconds;   *)
(* 1200 ms, 2500 ms and the 156 h interval are whole numbers of ticks.     *)
(* Date.now() is the variable clock; it moves between the sampled          *)
(* Instants, forwards (time passing) or backwards (device clock set back). *)
(*                                                                         *)
(* React.  setUsers(updater) is modelled as one atomic application of the  *)
(* updater to the latest state; an exception thrown inside the updater     *)
(* aborts the users update and reaches the caller, while the setAuditLog   *)
(* calls already made by commitAudit stay queued.  Under React.StrictMode  *)
(* a development build invokes an updater twice on the same previous       *)
(* state and keeps the second result; strictMode says which build runs.    *)
(*                                                                         *)
(* Out of the model: the ToastProvider and the ids it draws with           *)
(* genId('toast'), the views other than the scan and admin buttons, and    *)
(* the service worker.                                                     *)
(***************************************************************************)
EXTENDS Integers, Sequences, FiniteSets, TLC

\* ------------------------------------------------------------ constants
MsPerTick == 100
CHECKIN_INTERVAL_HOURS == 156
CHECKIN_INTERVAL_MS == (CHECKIN_INTERVAL_HOURS * 3600 * 1000) \div MsPerTick
QR_CONSTANT == "bla-poker-checkin"
COUPON_MODULO == 5
BUSY_WINDOW_MS == 1200 \div MsPerTick
DUPLICATE_WINDOW_MS == 2500 \div MsPerTick
AUDIT_KEEP == 499

\* ------------------------------------------------------------ bounds
MinClock == 1000
MaxIntervals == 4
MaxId == 9
MaxAudit == 2
MaxLedgerId == 22
MaxLedgerAudit == 8
MaxFbIntervals == 10
MaxCouponIntervals == 5
MaxCouponId == 19
MaxCouponAudit == 9
MaxUsersId == 9
MaxUsersAudit == 2
MaxAuditId == 510
MaxReloadIntervals == 3
MaxReloadId == 9
MaxReloadAudit == 4
MaxFbHalves == 9
MaxFbAttempts == 5
MaxOrderIntervals == 2
MaxOrderId == 12
MaxOrderAudit == 5

Min(a, b) == IF a < b THEN a ELSE b

\* The readings of Date.now() sampled around the rate-limit and duplicate-scan
\* windows: their differences are 1, w - 1 and w ticks for both windows w.
Offsets == {0, 1, BUSY_WINDOW_MS, DUPLICATE_WINDOW_MS}

Instants == {MinClock + o : o \in Offsets}

\* The readings of Date.now() sampled for long ledgers: one per interval, one
\* inside the first interval past the duplicate-scan window, and the tick
\* before the first interval has elapsed.
LedgerInstants ==
    {MinClock + k * CHECKIN_INTERVAL_MS : k \in 0..MaxIntervals}
        \cup {MinClock + DUPLICATE_WINDOW_MS, MinClock + CHECKIN_INTERVAL_MS - 1}

\* The values typed into the scan field.
ScanValues == {QR_CONSTANT, "other-code"}

\* The remote accounts the transactions are run on; the second has no document.
FbUids == {"uid-a", "uid-none"}

\* The browser sessions that call fbRedeemCoupon.
FbCallers == {"tab-1", "tab-2"}

VARIABLES users, authUserId, auditLog, idCounter,
          lastActionRef, lastScanValRef, lastScanTsRef,
          clock, strictMode, outcome,
          fbUserDocs, fbCheckInDocs, fbCouponDocs, fbRedeemCall, fbCheckInCall

\* The Firestore documents: users/{uid}, users/{uid}/checkIns, users/{uid}/coupons.
fbDocs == <<fbUserDocs, fbCheckInDocs, fbCouponDocs>>

\* The documents and, for each caller of fbRedeemCoupon, the coupon document
\* its query has picked while its transaction has not run yet; for each caller
\* of fbPerformCheckIn, the snapshot its transaction has read while the
\* transaction has not committed yet.
fbVars == <<fbDocs, fbRedeemCall, fbCheckInCall>>

vars == <<users, authUserId, auditLog, idCounter,
          lastActionRef, lastScanValRef, lastScanTsRef,
          clock, strictMode, outcome, fbVars>>

\* ------------------------------------------------------------ ids
\* genId(p) returns `${p}_${(++_idCounter).toString(36)}`: the prefix and the
\* counter value after the increment.
genId(p, ctr) == [p |-> p, n |-> ctr + 1]

NoId == [p |-> "null", n |-> 0]

seedAdmins ==
    << [email |-> "shawn@tjspecialty.com", displayName |-> "Shawn", isAdmin |-> TRUE],
       [email |-> "jodi@tjspecialty.com", displayName |-> "Jodi", isAdmin |-> TRUE],
       [email |-> "kevin@tjspecialty.com", displayName |-> "Kevin", isAdmin |-> TRUE] >>

createSeedUsers ==
    [i \in 1..Len(seedAdmins) |->
        [id |-> genId("u", i - 1),
         email |-> seedAdmins[i].email,
         passwordHash |-> "123456",
         displayName |-> seedAdmins[i].displayName,
         isAdmin |-> seedAdmins[i].isAdmin,
         isActive |-> TRUE,
         lastCheckInAt |-> 0,
         totalCheckIns |-> 0,
         couponsAvailable |-> 0,
         couponHistory |-> <<>>,
         checkIns |-> <<>>]]

\* ------------------------------------------------------------ audit log
\* The side effects an updater accumulates while it runs: the id counter and
\* the audit log (newest entry first).
Env(ctr, log) == [ctr |-> ctr, log |-> log]

\* Mutant: the entry is put in front of the whole log.
commitAuditUnbounded(env, type, meta, ts, actor) ==
    Env(env.ctr + 1,
        << [id |-> genId("log", env.ctr), type |-> type, meta |-> meta,
            ts |-> ts, actorUserId |-> actor] >> \o env.log)

commitAudit(env, type, meta, ts, actor) ==
    Env(env.ctr + 1,
        << [id |-> genId("log", env.ctr), type |-> type, meta |-> meta,
            ts |-> ts, actorUserId |-> actor] >>
            \o SubSeq(env.log, 1, Min(AUDIT_KEEP, Len(env.log))))

findUser(us, id) == CHOOSE i \in 1..Len(us) : us[i].id = id /\ \A j \in 1..(i - 1) : us[j].id # id

hasUser(us, id) == \E i \in 1..Len(us) : us[i].id = id

\* ------------------------------------------------------------ setUsers
\* setUsers(updater): first is the result [out, env, err] of one invocation of
\* the updater on the previous users, second the result of another invocation
\* on the same previous users made after the side effects of the first.  The
\* update throws as soon as an invocation throws; a development build under
\* StrictMode invokes the updater twice and renders the second result.
setUsers(first, second, strict) ==
    IF first.err # "" \/ ~strict THEN first ELSE second

\* Mutant: the users mapped before the throw are rendered.
usersAfterPartial(prev, r) == r.out

\* The users state after setUsers: unchanged when the updater threw.
usersAfter(prev, r) == IF r.err # "" THEN prev ELSE r.out

MapStart(env) == [out |-> <<>>, env |-> env, err |-> ""]

\* ------------------------------------------------------------ performCheckIn
\* Mutant: the rate-limit window closed one tick late.
BusyGuardInclusive(startTs, lastAction) == startTs - lastAction <= BUSY_WINDOW_MS

BusyGuard(startTs, lastAction) == startTs - lastAction < BUSY_WINDOW_MS

\* Mutant: the duplicate-scan window closed one tick late.
DuplicateGuardInclusive(scanValue, startTs, lastVal, lastTs) ==
    scanValue # "" /\ scanValue = lastVal /\ startTs - lastTs <= DUPLICATE_WINDOW_MS

DuplicateGuard(scanValue, startTs, lastVal, lastTs) ==
    scanValue # "" /\ scanValue = lastVal /\ startTs - lastTs < DUPLICATE_WINDOW_MS

\* Mutant: no clock-anomaly guard.
AnomalyGuardMissing(u, startTs) == FALSE

AnomalyGuard(u, startTs) == u.lastCheckInAt # 0 /\ startTs - u.lastCheckInAt < 0

\* Mutant: no interval guard.
IntervalGuardMissing(u, startTs) == FALSE

\* Mutant: a check-in exactly one interval after the last one is refused.
IntervalGuardInclusive(u, startTs) ==
    u.lastCheckInAt # 0 /\ startTs - u.lastCheckInAt <= CHECKIN_INTERVAL_MS

IntervalGuard(u, startTs) ==
    u.lastCheckInAt # 0 /\ startTs - u.lastCheckInAt < CHECKIN_INTERVAL_MS

\* Mutant: a coupon at every tenth check-in only.
CouponDueTenth(total) == total % (2 * COUPON_MODULO) = 0

\* Mutant: the coupon test applied to the count before the increment.
CouponDueBefore(totalCheckIns) == (totalCheckIns - 1) % COUPON_MODULO = 0

CouponDue(totalCheckIns) == totalCheckIns % COUPON_MODULO = 0

\* Mutant: the count is not incremented.
nextTotalStale(u) == u.totalCheckIns

\* const totalCheckIns = u.totalCheckIns + 1
nextTotal(u) == u.totalCheckIns + 1

\* The body of the updater for the user whose id matches (lines 163-183).
checkInUser(u, userId, startTs, actor, env) ==
    IF AnomalyGuard(u, startTs)
    THEN [u |-> u,
          env |-> commitAudit(env, "clock.anomaly",
                              [userId |-> userId, last |-> u.lastCheckInAt, now |-> startTs],
                              startTs, actor),
          err |-> "TIME_ANOMALY"]
    ELSE IF IntervalGuard(u, startTs)
    THEN [u |-> u, env |-> env, err |-> "TOO_SOON"]
    ELSE
      LET newCheckIn == [id |-> genId("ci", env.ctr), ts |-> startTs]
          totalCheckIns == nextTotal(u)
          coupon == [id |-> genId("cp", env.ctr + 1), createdAt |-> startTs, redeemedAt |-> 0]
          e1 == Env(env.ctr + 1, env.log)
          e2 == IF CouponDue(totalCheckIns)
                THEN commitAudit(Env(e1.ctr + 1, e1.log), "coupon.create",
                                 [userId |-> userId, couponId |-> coupon.id], startTs, actor)
                ELSE e1
          e3 == commitAudit(e2, "checkin.add",
                            [userId |-> userId, checkInId |-> newCheckIn.id], startTs, actor)
      IN  [u |-> [u EXCEPT !.checkIns = Append(u.checkIns, newCheckIn),
                           !.totalCheckIns = totalCheckIns,
                           !.couponsAvailable =
                               IF CouponDue(totalCheckIns) THEN @ + 1 ELSE @,
                           !.couponHistory =
                               IF CouponDue(totalCheckIns) THEN Append(@, coupon) ELSE @,
                           !.lastCheckInAt = newCheckIn.ts],
           env |-> e3,
           err |-> ""]

\* prev.map(u => ...) of performCheckIn, left to right, stopping at a throw.
RECURSIVE checkInMap(_, _, _, _, _, _)
checkInMap(prev, i, userId, startTs, actor, acc) ==
    IF i > Len(prev) \/ acc.err # "" THEN acc
    ELSE IF prev[i].id # userId
    THEN checkInMap(prev, i + 1, userId, startTs, actor,
                    [acc EXCEPT !.out = Append(@, prev[i])])
    ELSE LET r == checkInUser(prev[i], userId, startTs, actor, acc.env)
         IN  checkInMap(prev, i + 1, userId, startTs, actor,
                        [out |-> Append(acc.out, r.u), env |-> r.env, err |-> r.err])

\* performCheckIn(userId, scanValue) at Date.now() = startTs: the error thrown
\* ("" for none) and the state it leaves.
performCheckIn(userId, scanValue, startTs) ==
    IF BusyGuard(startTs, lastActionRef)
    THEN [err |-> "BUSY", users |-> users, env |-> Env(idCounter, auditLog),
          lastAction |-> lastActionRef, lastScanVal |-> lastScanValRef,
          lastScanTs |-> lastScanTsRef]
    ELSE IF DuplicateGuard(scanValue, startTs, lastScanValRef, lastScanTsRef)
    THEN [err |-> "DUPLICATE", users |-> users, env |-> Env(idCounter, auditLog),
          lastAction |-> lastActionRef, lastScanVal |-> lastScanValRef,
          lastScanTs |-> lastScanTsRef]
    ELSE
      LET Updater(e) == checkInMap(users, 1, userId, startTs, authUserId, MapStart(e))
          first == Updater(Env(idCounter, auditLog))
          r == setUsers(first, Updater(first.env), strictMode)
      IN  [err |-> r.err, users |-> usersAfter(users, r), env |-> r.env,
           lastAction |-> startTs, lastScanVal |-> scanValue, lastScanTs |-> startTs]

\* ------------------------------------------------------------ redeemCoupon
\* u.couponHistory.findIndex(c => !c.redeemedAt); 0 stands for -1.
firstUnredeemed(h) ==
    IF \E i \in 1..Len(h) : h[i].redeemedAt = 0
    THEN CHOOSE i \in 1..Len(h) : h[i].redeemedAt = 0 /\ \A j \in 1..(i - 1) : h[j].redeemedAt # 0
    ELSE 0

\* Mutant: the coupon is marked redeemed and couponsAvailable is left as it was.
redeemUserKeepsCount(u, userId, nowTs, actor, env) ==
    LET couponIdx == firstUnredeemed(u.couponHistory)
    IN  IF u.couponsAvailable <= 0 \/ couponIdx = 0
        THEN [u |-> u, env |-> env]
        ELSE [u |-> [u EXCEPT !.couponHistory[couponIdx].redeemedAt = nowTs],
              env |-> commitAudit(env, "coupon.redeem",
                                  [userId |-> userId, couponId |-> u.couponHistory[couponIdx].id],
                                  nowTs, actor)]

redeemUser(u, userId, nowTs, actor, env) ==
    LET couponIdx == firstUnredeemed(u.couponHistory)
    IN  IF u.couponsAvailable <= 0 \/ couponIdx = 0
        THEN [u |-> u, env |-> env]
        ELSE [u |-> [u EXCEPT !.couponsAvailable = @ - 1,
                              !.couponHistory[couponIdx].redeemedAt = nowTs],
              env |-> commitAudit(env, "coupon.redeem",
                                  [userId |-> userId, couponId |-> u.couponHistory[couponIdx].id],
                                  nowTs, actor)]

RECURSIVE redeemMap(_, _, _, _, _, _)
redeemMap(prev, i, userId, nowTs, actor, acc) ==
    IF i > Len(prev) THEN acc
    ELSE IF prev[i].id # userId
    THEN redeemMap(prev, i + 1, userId, nowTs, actor, [acc EXCEPT !.out = Append(@, prev[i])])
    ELSE LET r == redeemUser(prev[i], userId, nowTs, actor, acc.env)
         IN  redeemMap(prev, i + 1, userId, nowTs, actor,
                       [out |-> Append(acc.out, r.u), env |-> r.env, err |-> ""])

redeemCoupon(userId, nowTs) ==
    LET Updater(e) == redeemMap(users, 1, userId, nowTs, authUserId, MapStart(e))
        first == Updater(Env(idCounter, auditLog))
    IN  setUsers(first, Updater(first.env), strictMode)

\* ------------------------------------------------------------ deleteCheckIn
\* u.checkIns.filter(c => c.id !== checkInId)
RECURSIVE removeCheckIn(_, _)
removeCheckIn(cis, checkInId) ==
    IF cis = <<>> THEN <<>>
    ELSE IF Head(cis).id # checkInId THEN <<Head(cis)>> \o removeCheckIn(Tail(cis), checkInId)
    ELSE removeCheckIn(Tail(cis), checkInId)

\* coupons.filter(c => c.redeemedAt)
RECURSIVE redeemedOf(_)
redeemedOf(h) ==
    IF h = <<>> THEN <<>>
    ELSE IF Head(h).redeemedAt # 0 THEN <<Head(h)>> \o redeemedOf(Tail(h))
    ELSE redeemedOf(Tail(h))

\* coupons.filter(c => !c.redeemedAt).length
unredeemedCount(h) == Cardinality({i \in 1..Len(h) : h[i].redeemedAt = 0})

\* Array.prototype.sort((a,b) => a.createdAt - b.createdAt): a stable sort.
RECURSIVE insertByCreatedAt(_, _)
insertByCreatedAt(sorted, c) ==
    IF sorted = <<>> THEN <<c>>
    ELSE IF Head(sorted).createdAt <= c.createdAt
    THEN <<Head(sorted)>> \o insertByCreatedAt(Tail(sorted), c)
    ELSE <<c>> \o sorted

RECURSIVE sortByCreatedAt(_)
sortByCreatedAt(h) ==
    IF h = <<>> THEN <<>>
    ELSE insertByCreatedAt(sortByCreatedAt(SubSeq(h, 1, Len(h) - 1)), h[Len(h)])

\* Mutant: the target computed from the count before the removal.
targetCouponCountBefore(total) == (total + 1) \div COUPON_MODULO

targetCouponCount(total) == total \div COUPON_MODULO

\* Mutant: every coupon of the rebuilt history is created anew.
rebuildCouponsFresh(existingSorted, target, nowTs, ctr) ==
    [i \in 1..target |->
        [id |-> genId("cp", ctr + (i - 1)), createdAt |-> nowTs, redeemedAt |-> 0]]

\* The for loop of lines 198-204: the first target coupons of existingSorted,
\* padded with fresh coupons whose ids come from ctr + 1, ctr + 2, ...
rebuildCoupons(existingSorted, target, nowTs, ctr) ==
    [i \in 1..target |->
        IF i <= Len(existingSorted) THEN existingSorted[i]
        ELSE [id |-> genId("cp", ctr + (i - Len(existingSorted) - 1)),
              createdAt |-> nowTs, redeemedAt |-> 0]]

\* Mutant: the timestamp of the oldest remaining check-in.
lastTsOfFirst(cis) == IF Len(cis) > 0 THEN cis[1].ts ELSE 0

lastTs(cis) == IF Len(cis) > 0 THEN cis[Len(cis)].ts ELSE 0

deleteUser(u, userId, checkInId, nowTs, actor, env) ==
    IF ~ \E i \in 1..Len(u.checkIns) : u.checkIns[i].id = checkInId
    THEN [u |-> u, env |-> env]
    ELSE
      LET newCheckIns == removeCheckIn(u.checkIns, checkInId)
          total == Len(newCheckIns)
          target == targetCouponCount(total)
          existingSorted == sortByCreatedAt(u.couponHistory)
          rebuilt == rebuildCoupons(existingSorted, target, nowTs, env.ctr)
          padded == IF target > Len(existingSorted) THEN target - Len(existingSorted) ELSE 0
          removed == IF Len(existingSorted) > target
                     THEN SubSeq(existingSorted, target + 1, Len(existingSorted))
                     ELSE <<>>
          redeemedRemoved == redeemedOf(removed)
          e1 == Env(env.ctr + padded, env.log)
          e2 == IF Len(redeemedRemoved) > 0
                THEN commitAudit(e1, "coupon.invalidate",
                                 [userId |-> userId,
                                  couponIds |-> [i \in 1..Len(redeemedRemoved) |-> redeemedRemoved[i].id]],
                                 nowTs, actor)
                ELSE e1
          e3 == commitAudit(e2, "checkin.delete",
                            [userId |-> userId, checkInId |-> checkInId], nowTs, actor)
      IN  [u |-> [u EXCEPT !.checkIns = newCheckIns,
                           !.totalCheckIns = total,
                           !.couponsAvailable =
                               unredeemedCount(rebuilt),
                           !.couponHistory = rebuilt,
                           !.lastCheckInAt = lastTs(newCheckIns)],
           env |-> e3]

RECURSIVE deleteMap(_, _, _, _, _, _, _)
deleteMap(prev, i, userId, checkInId, nowTs, actor, acc) ==
    IF i > Len(prev) THEN acc
    ELSE IF prev[i].id # userId
    THEN deleteMap(prev, i + 1, userId, checkInId, nowTs, actor,
                   [acc EXCEPT !.out = Append(@, prev[i])])
    ELSE LET r == deleteUser(prev[i], userId, checkInId, nowTs, actor, acc.env)
         IN  deleteMap(prev, i + 1, userId, checkInId, nowTs, actor,
                       [out |-> Append(acc.out, r.u), env |-> r.env, err |-> ""])

deleteCheckIn(userId, checkInId, nowTs) ==
    LET Updater(e) == deleteMap(users, 1, userId, checkInId, nowTs, authUserId, MapStart(e))
        first == Updater(Env(idCounter, auditLog))
    IN  setUsers(first, Updater(first.env), strictMode)

\* ------------------------------------------------------------ the app
\* toLowerCase on the e-mail addresses typed into the forms.
\* Mutant: e-mail addresses compared as typed.
toLowerCaseAsTyped(s) == s

toLowerCase(s) ==
    CASE s = "JODI@TJSPECIALTY.COM" -> "jodi@tjspecialty.com"
      [] s = "SHAWN@TJSPECIALTY.COM" -> "shawn@tjspecialty.com"
      [] s = "Pat@Example.com" -> "pat@example.com"
      [] OTHER -> s

LoginEmails == {"shawn@tjspecialty.com", "JODI@TJSPECIALTY.COM", "nobody@example.com"}
Passwords == {"123456", "letmein"}

\* A check-in id no check-in carries (genId never returns counter value 0).
StaleCheckInId == [p |-> "ci", n |-> 0]

\* useAuthUser() is non-null: AuthGate renders the app shell.
LoggedIn == authUserId # NoId /\ hasUser(users, authUserId)

authUser == users[findUser(users, authUserId)]

\* What the last handler reported: the operation, the error it threw ("OK" for
\* none) and, for a check-in attempt, the reading of Date.now() it was made at.
\* Handlers that report nothing leave Idle.
ResultAt(op, res, at) == [op |-> op, res |-> res, at |-> at]
Result(op, res) == ResultAt(op, res, 0)
Idle == Result("idle", "")

\* A caller of fbRedeemCoupon that is not between its query and its transaction.
NoCall == [uid |-> "", target |-> 0]

\* A caller of fbPerformCheckIn whose transaction is not running.
NoCheckIn == [uid |-> "", attempts |-> 0]

Init ==
    /\ users = createSeedUsers
    /\ idCounter = Len(seedAdmins)
    /\ authUserId = NoId
    /\ auditLog = <<>>
    /\ lastActionRef = 0
    /\ lastScanValRef = ""
    /\ lastScanTsRef = 0
    /\ clock = MinClock
    /\ strictMode \in BOOLEAN
    /\ outcome = Idle
    /\ fbUserDocs = [uid \in {"uid-a"} |->
                        [lastCheckInAt |-> 0, totalCheckIns |-> 0, couponsAvailable |-> 0]]
    /\ fbCheckInDocs = [uid \in FbUids |-> <<>>]
    /\ fbCouponDocs = [uid \in FbUids |-> <<>>]
    /\ fbRedeemCall = [c \in FbCallers |-> NoCall]
    /\ fbCheckInCall = [c \in FbCallers |-> NoCheckIn]

\* Time passes: Date.now() reads a later instant.
Tick(instants) ==
    /\ \E t \in instants : t > clock /\ clock' = t
    /\ UNCHANGED <<users, authUserId, auditLog, idCounter, lastActionRef,
                   lastScanValRef, lastScanTsRef, strictMode, outcome, fbVars>>

\* The device clock is set back: Date.now() reads an earlier instant.
ClockSetBack(instants) ==
    /\ \E t \in instants : t < clock /\ clock' = t
    /\ UNCHANGED <<users, authUserId, auditLog, idCounter, lastActionRef,
                   lastScanValRef, lastScanTsRef, strictMode, outcome, fbVars>>

\* LoginForm.submit: login(email, password).
Login(email, password) ==
    /\ ~LoggedIn
    /\ LET found == {i \in 1..Len(users) : toLowerCase(users[i].email) = toLowerCase(email)}
           i == CHOOSE k \in found : \A j \in found : k <= j
       IN  IF found = {} \/ users[i].passwordHash # password
           THEN /\ outcome' = Result("login", "Invalid credentials")
                /\ UNCHANGED authUserId
           ELSE IF ~users[i].isActive
           THEN /\ outcome' = Result("login", "Account inactive")
                /\ UNCHANGED authUserId
           ELSE /\ authUserId' = users[i].id
                /\ outcome' = Idle
    /\ UNCHANGED <<users, auditLog, idCounter, lastActionRef, lastScanValRef,
                   lastScanTsRef, clock, strictMode, fbVars>>

\* NavBar: logout().
Logout ==
    /\ LoggedIn
    /\ authUserId' = NoId
    /\ outcome' = Idle
    /\ UNCHANGED <<users, auditLog, idCounter, lastActionRef, lastScanValRef,
                   lastScanTsRef, clock, strictMode, fbVars>>

\* ScanView.simulateScan(value) for the logged-in user.
SimulateScan(value) ==
    /\ LoggedIn
    /\ IF value # QR_CONSTANT
       THEN /\ outcome' = ResultAt("checkIn", "INVALID", clock)
            /\ UNCHANGED <<users, auditLog, idCounter, lastActionRef,
                           lastScanValRef, lastScanTsRef>>
       ELSE LET r == performCheckIn(authUser.id, value, clock)
            IN  /\ users' = r.users
                /\ auditLog' = r.env.log
                /\ idCounter' = r.env.ctr
                /\ lastActionRef' = r.lastAction
                /\ lastScanValRef' = r.lastScanVal
                /\ lastScanTsRef' = r.lastScanTs
                /\ outcome' = ResultAt("checkIn", IF r.err = "" THEN "OK" ELSE r.err, clock)
    /\ UNCHANGED <<authUserId, clock, strictMode, fbVars>>

\* AdminView "Redeem One": redeemCoupon(selected.id).
RedeemOne(userId) ==
    /\ LoggedIn /\ authUser.isAdmin
    /\ LET r == redeemCoupon(userId, clock)
       IN  /\ users' = usersAfter(users, r)
           /\ auditLog' = r.env.log
           /\ idCounter' = r.env.ctr
    /\ outcome' = Result("redeem", "OK")
    /\ UNCHANGED <<authUserId, lastActionRef, lastScanValRef, lastScanTsRef,
                   clock, strictMode, fbVars>>

\* AdminView "Delete": deleteCheckIn(selected.id, ci.id).
DeleteOne(userId, checkInId) ==
    /\ LoggedIn /\ authUser.isAdmin
    /\ LET r == deleteCheckIn(userId, checkInId, clock)
       IN  /\ users' = usersAfter(users, r)
           /\ auditLog' = r.env.log
           /\ idCounter' = r.env.ctr
    /\ outcome' = Result("delete", "OK")
    /\ UNCHANGED <<authUserId, lastActionRef, lastScanValRef, lastScanTsRef,
                   clock, strictMode, fbVars>>

\* The page is reloaded: the module is evaluated again (_idCounter = 0, fresh
\* refs) and users, audit log and session come back from localStorage.
Reload ==
    /\ idCounter' = 0
    /\ lastActionRef' = 0
    /\ lastScanValRef' = ""
    /\ lastScanTsRef' = 0
    /\ outcome' = Idle
    /\ UNCHANGED <<users, authUserId, auditLog, clock, strictMode, fbVars>>

UserIds == {users[i].id : i \in 1..Len(users)}

CheckInIdsOf(userId) ==
    UNION {{users[i].checkIns[k].id : k \in 1..Len(users[i].checkIns)} :
              i \in {j \in 1..Len(users) : users[j].id = userId}}

\* The part of the state space explored: id counters up to maxId and audit
\* logs of up to maxAudit entries.
Within(maxId, maxAudit) == idCounter <= maxId /\ Len(auditLog) <= maxAudit

\* The app under every input, around the guards' thresholds.
Next ==
    \/ Tick(Instants)
    \/ ClockSetBack(Instants)
    \/ \E e \in LoginEmails, pw \in Passwords : Login(e, pw)
    \/ Logout
    \/ \E v \in ScanValues : SimulateScan(v) /\ Within(MaxId, MaxAudit)'
    \/ \E id \in UserIds : RedeemOne(id) /\ Within(MaxId, MaxAudit)'
    \/ \E id \in UserIds : \E ci \in CheckInIdsOf(id) \cup {StaleCheckInId} :
          DeleteOne(id, ci) /\ Within(MaxId, MaxAudit)'
    \/ Reload

Spec == Init /\ [][Next]_vars

\* The scan view alone around the guards' thresholds: logins, scans, reloads
\* and a clock that moves both ways, without the administrator's buttons.
NextGuards ==
    \/ Tick(Instants)
    \/ ClockSetBack(Instants)
    \/ \E e \in LoginEmails, pw \in Passwords : Login(e, pw)
    \/ Logout
    \/ \E v \in ScanValues : SimulateScan(v) /\ Within(MaxId, MaxAudit)'
    \/ Reload

SpecGuards == Init /\ [][NextGuards]_vars

\* One user's ledger over many intervals: check-ins, redemptions and deletions
\* by the logged-in administrator on any account, one clock reading per interval.
NextLedger ==
    \/ Tick(LedgerInstants)
    \/ Login("shawn@tjspecialty.com", "123456")
    \/ \E v \in ScanValues : SimulateScan(v) /\ Within(MaxLedgerId, MaxLedgerAudit)'
    \/ \E id \in UserIds : RedeemOne(id) /\ Within(MaxLedgerId, MaxLedgerAudit)'
    \/ \E id \in UserIds : \E ci \in CheckInIdsOf(id) \cup {StaleCheckInId} :
          DeleteOne(id, ci) /\ Within(MaxLedgerId, MaxLedgerAudit)'

SpecLedger == Init /\ [][NextLedger]_vars

\* The readings of Date.now() one interval apart.
CouponInstants == {MinClock + k * CHECKIN_INTERVAL_MS : k \in 0..MaxCouponIntervals}

\* The next interval begins once a check-in attempt got through in the current one.
NextInterval == lastActionRef = clock /\ Tick({clock + CHECKIN_INTERVAL_MS} \cap CouponInstants)

\* The check-ins the logged-in user holds.
OwnCheckInIds == IF LoggedIn THEN CheckInIdsOf(authUserId) ELSE {}

\* An administrator who checks in once per interval, redeems coupons and
\* deletes check-ins on the own account, long enough to earn a coupon, redeem
\* it and delete check-ins around the fifth.
NextCoupons ==
    \/ NextInterval
    \/ Login("shawn@tjspecialty.com", "123456")
    \/ SimulateScan(QR_CONSTANT) /\ Within(MaxCouponId, MaxCouponAudit)'
    \/ RedeemOne(authUserId) /\ Within(MaxCouponId, MaxCouponAudit)'
    \/ \E ci \in OwnCheckInIds : DeleteOne(authUserId, ci) /\ Within(MaxCouponId, MaxCouponAudit)'

SpecCoupons == Init /\ [][NextCoupons]_vars

\* The readings of Date.now() one interval apart, across reloads.
ReloadInstants == {MinClock + k * CHECKIN_INTERVAL_MS : k \in 0..MaxReloadIntervals}

\* An administrator who checks in once per interval and deletes check-ins on
\* the own account, with page reloads in between.
NextReload ==
    \/ Tick({clock + CHECKIN_INTERVAL_MS} \cap ReloadInstants)
    \/ Login("shawn@tjspecialty.com", "123456")
    \/ SimulateScan(QR_CONSTANT) /\ Within(MaxReloadId, MaxReloadAudit)'
    \/ \E ci \in OwnCheckInIds : DeleteOne(authUserId, ci) /\ Within(MaxReloadId, MaxReloadAudit)'
    \/ Reload

SpecReload == Init /\ [][NextReload]_vars

\* The readings of Date.now() one interval apart, and the end of the
\* rate-limit window after the first.
OrderInstants ==
    {MinClock + k * CHECKIN_INTERVAL_MS : k \in 0..MaxOrderIntervals}
        \cup {MinClock + BUSY_WINDOW_MS}

\* An administrator who checks in and deletes check-ins on the own account
\* while the clock moves forward and is set back.
NextOrder ==
    \/ Tick(OrderInstants)
    \/ ClockSetBack(OrderInstants)
    \/ Login("shawn@tjspecialty.com", "123456")
    \/ SimulateScan(QR_CONSTANT) /\ Within(MaxOrderId, MaxOrderAudit)'
    \/ \E ci \in OwnCheckInIds : DeleteOne(authUserId, ci) /\ Within(MaxOrderId, MaxOrderAudit)'

SpecOrder == Init /\ [][NextOrder]_vars

\* ------------------------------------------------------------ accounts
\* email.split('@')[0] on the addresses typed into the registration form.
localPart(email) ==
    CASE email = "pat@example.com" -> "pat"
      [] email = "Pat@Example.com" -> "Pat"
      [] email = "SHAWN@TJSPECIALTY.COM" -> "SHAWN"

\* renameText.trim() on the texts typed into the rename field.
trim(s) ==
    CASE s = " Patricia " -> "Patricia"
      [] s = "  " -> ""
      [] OTHER -> s

RegisterEmails == {"pat@example.com", "Pat@Example.com", "SHAWN@TJSPECIALTY.COM"}
RegisterNames == {"", "Pat"}
RenameTexts == {" Patricia ", "  ", "Shawn"}

\* addUser(email, password, displayName): the error thrown ("" for none), the
\* users and the side effects.
addUser(email, password, displayName) ==
    LET exists == \E i \in 1..Len(users) : toLowerCase(users[i].email) = toLowerCase(email)
        nu == [id |-> genId("u", idCounter),
               email |-> email,
               passwordHash |-> password,
               displayName |-> displayName,
               isAdmin |-> FALSE,
               isActive |-> TRUE,
               lastCheckInAt |-> 0,
               totalCheckIns |-> 0,
               couponsAvailable |-> 0,
               couponHistory |-> <<>>,
               checkIns |-> <<>>]
    IN  IF exists
        THEN [err |-> "Email already exists.", users |-> users,
              env |-> Env(idCounter, auditLog)]
        ELSE [err |-> "", users |-> Append(users, nu),
              env |-> commitAudit(Env(idCounter + 1, auditLog), "user.create",
                                  [userId |-> nu.id, email |-> email], clock, authUserId)]

\* updateUser(id, u => ({ ...u, isActive })): every record carrying the id.
updateUserIsActive(us, id, isActive) ==
    [i \in 1..Len(us) |-> IF us[i].id = id THEN [us[i] EXCEPT !.isActive = isActive] ELSE us[i]]

\* updateUser(id, u => ({ ...u, displayName: newName })).
updateUserDisplayName(us, id, newName) ==
    [i \in 1..Len(us) |-> IF us[i].id = id THEN [us[i] EXCEPT !.displayName = newName] ELSE us[i]]

softDeleteUser(id) ==
    [users |-> updateUserIsActive(users, id, FALSE),
     env |-> commitAudit(Env(idCounter, auditLog), "user.softDelete",
                         [userId |-> id], clock, authUserId)]

restoreUser(id) ==
    [users |-> updateUserIsActive(users, id, TRUE),
     env |-> commitAudit(Env(idCounter, auditLog), "user.restore",
                         [userId |-> id], clock, authUserId)]

renameUser(id, newName) ==
    [users |-> updateUserDisplayName(users, id, newName),
     env |-> commitAudit(Env(idCounter, auditLog), "user.rename",
                         [userId |-> id, newName |-> newName], clock, authUserId)]

\* RegisterForm.submit: addUser(email, password, displayName || email.split('@')[0]).
AddUser(email, password, displayName) ==
    /\ ~LoggedIn
    /\ LET r == addUser(email, password,
                        IF displayName = "" THEN localPart(email) ELSE displayName)
       IN  /\ users' = r.users
           /\ auditLog' = r.env.log
           /\ idCounter' = r.env.ctr
           /\ outcome' = Result("register", IF r.err = "" THEN "OK" ELSE r.err)
    /\ UNCHANGED <<authUserId, lastActionRef, lastScanValRef, lastScanTsRef,
                   clock, strictMode, fbVars>>

\* AdminView: the record the panel shows for the selected id.
selected(id) == users[findUser(users, id)]

\* AdminView "Soft Delete", shown while the selected user is active.
SoftDeleteUser(id) ==
    /\ LoggedIn /\ authUser.isAdmin
    /\ hasUser(users, id) /\ selected(id).isActive
    /\ LET r == softDeleteUser(id)
       IN  /\ users' = r.users
           /\ auditLog' = r.env.log
           /\ idCounter' = r.env.ctr
    /\ outcome' = Result("softDelete", "OK")
    /\ UNCHANGED <<authUserId, lastActionRef, lastScanValRef, lastScanTsRef,
                   clock, strictMode, fbVars>>

\* AdminView "Restore", shown while the selected user is inactive.
RestoreUser(id) ==
    /\ LoggedIn /\ authUser.isAdmin
    /\ hasUser(users, id) /\ ~selected(id).isActive
    /\ LET r == restoreUser(id)
       IN  /\ users' = r.users
           /\ auditLog' = r.env.log
           /\ idCounter' = r.env.ctr
    /\ outcome' = Result("restore", "OK")
    /\ UNCHANGED <<authUserId, lastActionRef, lastScanValRef, lastScanTsRef,
                   clock, strictMode, fbVars>>

\* AdminView "Rename", enabled while the trimmed text is not empty.
RenameUser(id, renameText) ==
    /\ LoggedIn /\ authUser.isAdmin
    /\ hasUser(users, id)
    /\ trim(renameText) # ""
    /\ LET r == renameUser(selected(id).id, trim(renameText))
       IN  /\ users' = r.users
           /\ auditLog' = r.env.log
           /\ idCounter' = r.env.ctr
    /\ outcome' = Result("rename", "OK")
    /\ UNCHANGED <<authUserId, lastActionRef, lastScanValRef, lastScanTsRef,
                   clock, strictMode, fbVars>>

\* LeaderboardView: the active users by totalCheckIns, highest first, the
\* first ten of them.
IsActive(u) == u.isActive

RECURSIVE insertByTotal(_, _)
insertByTotal(sorted, u) ==
    IF sorted = <<>> THEN <<u>>
    ELSE IF Head(sorted).totalCheckIns >= u.totalCheckIns
    THEN <<Head(sorted)>> \o insertByTotal(Tail(sorted), u)
    ELSE <<u>> \o sorted

RECURSIVE sortByTotal(_)
sortByTotal(us) ==
    IF us = <<>> THEN <<>>
    ELSE insertByTotal(sortByTotal(SubSeq(us, 1, Len(us) - 1)), us[Len(us)])

activeUsers(us) == SelectSeq(us, IsActive)

top(us) ==
    LET sorted == sortByTotal(activeUsers(us))
    IN  SubSeq(sorted, 1, Min(10, Len(sorted)))

\* Registration, logins and the administrator's account buttons, with scans so
\* that ledgers differ and reloads so that the id counter restarts.
NextUsers ==
    \/ \E e \in RegisterEmails, n \in RegisterNames :
          AddUser(e, "123456", n) /\ Within(MaxUsersId, MaxUsersAudit)'
    \/ \E e \in {"shawn@tjspecialty.com", "Pat@Example.com"} : Login(e, "123456")
    \/ Logout
    \/ \E id \in UserIds : SoftDeleteUser(id) /\ Within(MaxUsersId, MaxUsersAudit)'
    \/ \E id \in UserIds : RestoreUser(id) /\ Within(MaxUsersId, MaxUsersAudit)'
    \/ \E id \in UserIds, t \in RenameTexts :
          RenameUser(id, t) /\ Within(MaxUsersId, MaxUsersAudit)'
    \/ SimulateScan(QR_CONSTANT) /\ Within(MaxUsersId, MaxUsersAudit)'
    \/ Reload

SpecUsers == Init /\ [][NextUsers]_vars

\* An administrator who deactivates and restores one account over and over
\* and scans once the audit log is full, until it has been full for a while.
NextAudit ==
    \/ Login("shawn@tjspecialty.com", "123456")
    \/ SoftDeleteUser(genId("u", 1)) /\ Within(MaxAuditId, MaxAuditId)'
    \/ RestoreUser(genId("u", 1)) /\ Within(MaxAuditId, MaxAuditId)'
    \/ /\ Len(auditLog) = AUDIT_KEEP + 1
       /\ SimulateScan(QR_CONSTANT) /\ Within(MaxAuditId, MaxAuditId)'

SpecAudit == Init /\ [][NextAudit]_vars

\* ------------------------------------------------------------ firebase.js
\* serverTimestamp() resolves to the time of the commit; the device clock
\* agrees with the server when it writes and may be set back afterwards.
serverTimestamp == clock

\* The transaction function of fbPerformCheckIn on the snapshot u of users/{uid}:
\* the error thrown ("" for none) and the writes of the transaction.
fbCheckInTx(u, nowTs) ==
    LET last == u.lastCheckInAt
        newTotal == u.totalCheckIns + 1
    IN  IF last # 0 /\ nowTs - last < CHECKIN_INTERVAL_MS
        THEN [err |-> "TOO_SOON", user |-> u, checkIns |-> <<>>, coupons |-> <<>>]
        ELSE [err |-> "",
              user |-> [lastCheckInAt |-> serverTimestamp,
                        totalCheckIns |-> newTotal,
                        couponsAvailable |->
                            u.couponsAvailable + (IF CouponDue(newTotal) THEN 1 ELSE 0)],
              checkIns |-> << [ts |-> serverTimestamp, deleted |-> FALSE] >>,
              coupons |-> IF CouponDue(newTotal)
                          THEN << [createdAt |-> serverTimestamp, redeemedAt |-> 0] >>
                          ELSE <<>>]

\* window.fbPerformCheckIn(uid): runTransaction commits all writes or none.
FbPerformCheckIn(uid) ==
    /\ IF uid \notin DOMAIN fbUserDocs
       THEN /\ outcome' = ResultAt("fbCheckIn", "USER_MISSING", clock)
            /\ UNCHANGED fbDocs
       ELSE LET r == fbCheckInTx(fbUserDocs[uid], clock)
            IN  /\ outcome' = ResultAt("fbCheckIn", IF r.err = "" THEN "OK" ELSE r.err, clock)
                /\ fbUserDocs' = [fbUserDocs EXCEPT ![uid] = r.user]
                /\ fbCheckInDocs' = [fbCheckInDocs EXCEPT ![uid] = @ \o r.checkIns]
                /\ fbCouponDocs' = [fbCouponDocs EXCEPT ![uid] = @ \o r.coupons]
    /\ UNCHANGED <<users, authUserId, auditLog, idCounter, lastActionRef,
                   lastScanValRef, lastScanTsRef, clock, strictMode,
                   fbRedeemCall, fbCheckInCall>>

\* The remote check-in transaction under every sampled clock reading.
NextFb ==
    \/ Tick(Instants \cup LedgerInstants)
    \/ ClockSetBack(Instants \cup LedgerInstants)
    \/ \E uid \in FbUids : FbPerformCheckIn(uid)

SpecFb == Init /\ [][NextFb]_vars

\* ------------------------------------------------------------ fbRedeemCoupon
\* query(coupons, orderBy('createdAt','asc')) then docs.find(d => !d.data().redeemedAt):
\* the position of the earliest-created coupon document without redeemedAt, 0
\* when there is none.
fbFindTarget(coupons) ==
    LET open == {i \in 1..Len(coupons) : coupons[i].redeemedAt = 0}
    IN  IF open = {} THEN 0
        ELSE CHOOSE i \in open :
                \A j \in open : \/ coupons[i].createdAt < coupons[j].createdAt
                                \/ (coupons[i].createdAt = coupons[j].createdAt /\ i <= j)

\* fbRedeemCoupon(uid), first half: the getDocs query, outside any transaction.
FbRedeemQuery(c, uid) ==
    /\ fbRedeemCall[c] = NoCall
    /\ LET target == fbFindTarget(fbCouponDocs[uid])
       IN  IF target = 0
           THEN /\ outcome' = Result("fbRedeem", "NO_COUPON")
                /\ UNCHANGED fbRedeemCall
           ELSE /\ outcome' = Result("fbRedeemQuery", "OK")
                /\ fbRedeemCall' = [fbRedeemCall EXCEPT ![c] = [uid |-> uid, target |-> target]]
    /\ UNCHANGED <<users, authUserId, auditLog, idCounter, lastActionRef,
                   lastScanValRef, lastScanTsRef, clock, strictMode, fbDocs,
                   fbCheckInCall>>

\* fbRedeemCoupon(uid), second half: runTransaction reads users/{uid} and writes
\* the coupon document picked by the query and the user document, atomically.
FbRedeemTx(c) ==
    /\ fbRedeemCall[c] # NoCall
    /\ LET uid == fbRedeemCall[c].uid
           target == fbRedeemCall[c].target
       IN  IF fbUserDocs[uid].couponsAvailable < 1
           THEN /\ outcome' = Result("fbRedeem", "NO_COUPON")
                /\ UNCHANGED fbDocs
           ELSE /\ outcome' = Result("fbRedeem", "OK")
                /\ fbCouponDocs' = [fbCouponDocs EXCEPT ![uid][target].redeemedAt = serverTimestamp]
                /\ fbUserDocs' = [fbUserDocs EXCEPT ![uid].couponsAvailable = @ - 1]
                /\ UNCHANGED fbCheckInDocs
    /\ fbRedeemCall' = [fbRedeemCall EXCEPT ![c] = NoCall]
    /\ UNCHANGED <<users, authUserId, auditLog, idCounter, lastActionRef,
                   lastScanValRef, lastScanTsRef, clock, strictMode, fbCheckInCall>>

\* The readings of Date.now() one interval apart: each allows a remote check-in.
FbInstants == {MinClock + k * CHECKIN_INTERVAL_MS : k \in 0..MaxFbIntervals}

\* Remote check-ins one interval apart and redemptions from two sessions.
NextFbRedeem ==
    \/ Tick(FbInstants)
    \/ FbPerformCheckIn("uid-a")
    \/ \E c \in FbCallers, uid \in FbUids : FbRedeemQuery(c, uid)
    \/ \E c \in FbCallers : FbRedeemTx(c)

SpecFbRedeem == Init /\ [][NextFbRedeem]_vars

\* ------------------------------------------------------------ concurrent check-ins
\* runTransaction commits only if no document the transaction read has changed
\* since; users/{uid} is the one document fbPerformCheckIn reads. Every commit
\* of a check-in raises totalCheckIns, so a changed document differs in value.
\* Mutant: the commit does not look at the documents read.
fbConflictIgnored(snap, cur) == FALSE

fbConflict(snap, cur) == snap # cur

\* One run of the transaction function for caller c on the current documents:
\* it throws, or it has read users/{uid} and waits for its commit.
fbAttempt(c, uid, attempts, op) ==
    LET r == fbCheckInTx(fbUserDocs[uid], clock)
    IN  IF r.err # ""
        THEN /\ outcome' = ResultAt(op, r.err, clock)
             /\ fbCheckInCall' = [fbCheckInCall EXCEPT ![c] = NoCheckIn]
        ELSE /\ outcome' = ResultAt(op, "PENDING", clock)
             /\ fbCheckInCall' = [fbCheckInCall EXCEPT ![c] =
                    [uid |-> uid, attempts |-> attempts,
                     snap |-> fbUserDocs[uid], at |-> clock]]

\* window.fbPerformCheckIn(uid) is called: the transaction function runs for
\* the first time.
FbCheckInBegin(c, uid) ==
    /\ fbCheckInCall[c] = NoCheckIn
    /\ IF uid \notin DOMAIN fbUserDocs
       THEN /\ outcome' = ResultAt("fbCheckIn", "USER_MISSING", clock)
            /\ UNCHANGED fbCheckInCall
       ELSE fbAttempt(c, uid, 1, "fbCheckIn")
    /\ UNCHANGED <<users, authUserId, auditLog, idCounter, lastActionRef,
                   lastScanValRef, lastScanTsRef, clock, strictMode, fbDocs,
                   fbRedeemCall>>

\* The transaction of caller c tries to commit: the writes go through together,
\* or users/{uid} has changed and the transaction function runs again, up to
\* MaxFbAttempts runs in all.
FbCheckInCommit(c) ==
    /\ fbCheckInCall[c] # NoCheckIn
    /\ LET call == fbCheckInCall[c]
           uid == call.uid
           r == fbCheckInTx(call.snap, call.at)
       IN  IF ~fbConflict(call.snap, fbUserDocs[uid])
           THEN /\ outcome' = ResultAt("fbCheckIn", "OK", clock)
                /\ fbUserDocs' = [fbUserDocs EXCEPT ![uid] = r.user]
                /\ fbCheckInDocs' = [fbCheckInDocs EXCEPT ![uid] = @ \o r.checkIns]
                /\ fbCouponDocs' = [fbCouponDocs EXCEPT ![uid] = @ \o r.coupons]
                /\ fbCheckInCall' = [fbCheckInCall EXCEPT ![c] = NoCheckIn]
           ELSE /\ UNCHANGED fbDocs
                /\ IF call.attempts >= MaxFbAttempts
                   THEN /\ outcome' = ResultAt("fbCheckInRetry", "ABORTED", clock)
                        /\ fbCheckInCall' = [fbCheckInCall EXCEPT ![c] = NoCheckIn]
                   ELSE fbAttempt(c, uid, call.attempts + 1, "fbCheckInRetry")
    /\ UNCHANGED <<users, authUserId, auditLog, idCounter, lastActionRef,
                   lastScanValRef, lastScanTsRef, clock, strictMode, fbRedeemCall>>

\* The readings of Date.now() half an interval apart.
FbHalfInstants == {MinClock + k * (CHECKIN_INTERVAL_MS \div 2) : k \in 0..MaxFbHalves}

\* Remote check-ins from two sessions whose transactions overlap.
NextFbCheckIn ==
    \/ Tick(FbHalfInstants)
    \/ \E c \in FbCallers, uid \in FbUids : FbCheckInBegin(c, uid)
    \/ \E c \in FbCallers : FbCheckInCommit(c)

SpecFbCheckIn == Init /\ [][NextFbCheckIn]_vars

\* ------------------------------------------------------------ properties
Max(S) == CHOOSE x \in S : \A y \in S : y <= x

TypesOf(log) == {log[k].type : k \in 1..Len(log)}

\* The audit entries of a type about a user, counted per invocation of the updater.
EntriesAbout(type, userId) ==
    Cardinality({k \in 1..Len(auditLog) :
                    auditLog[k].type = type /\ auditLog[k].meta.userId = userId})
        \div (IF strictMode THEN 2 ELSE 1)

Newest(type) == auditLog # <<>> /\ auditLog[1].type = type

\* C1 (I2): every user's coupon history holds exactly floor(totalCheckIns / 5) coupons.
InvCouponCount ==
    \A i \in 1..Len(users) :
        Len(users[i].couponHistory) = users[i].totalCheckIns \div COUPON_MODULO

\* A deletion has just taken a user from 5 check-ins to 4 and dropped the coupon.
WitCouponDropped ==
    /\ Newest("checkin.delete")
    /\ "coupon.create" \in TypesOf(auditLog)
    /\ \E i \in 1..Len(users) :
          /\ users[i].totalCheckIns = COUPON_MODULO - 1
          /\ users[i].couponHistory = <<>>

\* C2 (I3): couponsAvailable is the number of coupons not yet redeemed, never negative.
InvCouponsAvailable ==
    \A i \in 1..Len(users) :
        /\ users[i].couponsAvailable =
              Cardinality({k \in 1..Len(users[i].couponHistory) :
                              users[i].couponHistory[k].redeemedAt = 0})
        /\ users[i].couponsAvailable >= 0

\* A redemption has just consumed a user's only coupon.
WitRedeemed ==
    /\ Newest("coupon.redeem")
    /\ \E i \in 1..Len(users) :
          /\ users[i].couponsAvailable = 0
          /\ Len(users[i].couponHistory) = 1
          /\ users[i].couponHistory[1].redeemedAt # 0

\* C3 (I1): totalCheckIns is the length of the checkIns sequence.
InvTotalCheckIns ==
    \A i \in 1..Len(users) : users[i].totalCheckIns = Len(users[i].checkIns)

\* A deletion has just left a user with two check-ins.
WitDeletedOne ==
    /\ Newest("checkin.delete")
    /\ \E i \in 1..Len(users) : Len(users[i].checkIns) = 2 /\ users[i].totalCheckIns = 2

\* C4 (I4): lastCheckInAt is the largest timestamp among the check-ins, 0 when there is none.
InvLastCheckInAt ==
    \A i \in 1..Len(users) :
        users[i].lastCheckInAt =
            IF users[i].checkIns = <<>> THEN 0
            ELSE Max({users[i].checkIns[k].ts : k \in 1..Len(users[i].checkIns)})

\* A deletion has just removed a check-in that was neither the oldest nor the latest.
WitDeletedMiddle ==
    /\ Newest("checkin.delete")
    /\ \E i \in 1..Len(users) :
          LET cis == users[i].checkIns
          IN  /\ Len(cis) >= 2
              /\ auditLog[1].meta.userId = users[i].id
              /\ cis[1].id.n < auditLog[1].meta.checkInId.n
              /\ auditLog[1].meta.checkInId.n < cis[Len(cis)].id.n
              /\ users[i].lastCheckInAt = cis[Len(cis)].ts

\* The step is a check-in attempt with the scanned value v that succeeded.
CheckInSucceeds(v) == SimulateScan(v) /\ outcome'.res = "OK"

\* What a successful check-in of the logged-in user changes.
CheckInEffect ==
    LET i == findUser(users, authUserId)
        u == users[i]
        w == users'[i]
        n == Len(u.checkIns)
        h == Len(u.couponHistory)
        due == (u.totalCheckIns + 1) % COUPON_MODULO = 0
    IN  /\ Len(users') = Len(users)
        /\ \A j \in 1..Len(users) : j # i => users'[j] = users[j]
        /\ Len(w.checkIns) = n + 1
        /\ SubSeq(w.checkIns, 1, n) = u.checkIns
        /\ w.checkIns[n + 1].ts = clock
        /\ w.totalCheckIns = u.totalCheckIns + 1
        /\ w.lastCheckInAt = clock
        /\ IF due
           THEN /\ Len(w.couponHistory) = h + 1
                /\ SubSeq(w.couponHistory, 1, h) = u.couponHistory
                /\ w.couponHistory[h + 1].createdAt = clock
                /\ w.couponHistory[h + 1].redeemedAt = 0
                /\ w.couponsAvailable = u.couponsAvailable + 1
           ELSE /\ w.couponHistory = u.couponHistory
                /\ w.couponsAvailable = u.couponsAvailable

\* After N successful check-ins and no deletion a user holds floor(N/5) coupons,
\* of which all but the redeemed ones are available.
CouponCadence ==
    \A i \in 1..Len(users) :
        EntriesAbout("checkin.delete", users[i].id) = 0 =>
            LET N == EntriesAbout("checkin.add", users[i].id)
                R == EntriesAbout("coupon.redeem", users[i].id)
            IN  /\ Len(users[i].couponHistory) = N \div COUPON_MODULO
                /\ users[i].couponsAvailable = (N \div COUPON_MODULO) - R

\* C5: a successful check-in appends one check-in, adds one to totalCheckIns and
\* sets lastCheckInAt, and in the same step appends one unredeemed coupon and adds
\* one to couponsAvailable exactly when the new total is a multiple of 5; so N
\* check-ins without deletion leave floor(N/5) coupons.
CheckInAwardsCoupon ==
    /\ []CouponCadence
    /\ [][\A v \in ScanValues : CheckInSucceeds(v) => CheckInEffect]_vars

\* The fifth check-in has just been recorded together with its coupon.
WitFifthCheckIn ==
    /\ outcome = ResultAt("checkIn", "OK", clock)
    /\ \E i \in 1..Len(users) :
          /\ users[i].id = authUserId
          /\ users[i].totalCheckIns = COUPON_MODULO
          /\ Len(users[i].couponHistory) = 1
          /\ users[i].couponHistory[1].redeemedAt = 0
          /\ users[i].couponsAvailable = 1
          /\ users[i].lastCheckInAt = clock

\* ------------------------------------------------------------ guards
HasPrior == authUser.lastCheckInAt # 0

\* The outcome of an attempt with the value v when the token is judged first.
TokenFirst(v) ==
    IF v # QR_CONSTANT THEN "INVALID"
    ELSE IF clock - lastActionRef < BUSY_WINDOW_MS THEN "BUSY"
    ELSE IF lastScanValRef = v /\ clock - lastScanTsRef < DUPLICATE_WINDOW_MS THEN "DUPLICATE"
    ELSE IF HasPrior /\ clock < authUser.lastCheckInAt THEN "TIME_ANOMALY"
    ELSE IF HasPrior /\ clock - authUser.lastCheckInAt < CHECKIN_INTERVAL_MS THEN "TOO_SOON"
    ELSE "OK"

\* The outcome of an attempt with the value v when the token is judged third.
TokenThird(v) ==
    IF clock - lastActionRef < BUSY_WINDOW_MS THEN "BUSY"
    ELSE IF lastScanValRef = v /\ clock - lastScanTsRef < DUPLICATE_WINDOW_MS THEN "DUPLICATE"
    ELSE IF v # QR_CONSTANT THEN "INVALID"
    ELSE IF HasPrior /\ clock < authUser.lastCheckInAt THEN "TIME_ANOMALY"
    ELSE IF HasPrior /\ clock - authUser.lastCheckInAt < CHECKIN_INTERVAL_MS THEN "TOO_SOON"
    ELSE "OK"

InvalidRecordsNothing(v) ==
    v # QR_CONSTANT => /\ users' = users
                       /\ auditLog' = auditLog
                       /\ <<lastActionRef, lastScanValRef, lastScanTsRef>>' =
                              <<lastActionRef, lastScanValRef, lastScanTsRef>>

\* C6, amended: the failure conditions are evaluated in the order InvalidToken,
\* Busy, Duplicate, TimeAnomaly, TooSoon, the attempt failing with the earliest
\* kind that holds; an attempt with an invalid token records no check-in, writes
\* no audit entry and leaves the rate-limit and duplicate-scan records untouched.
GuardOrder ==
    [][\A v \in ScanValues :
          SimulateScan(v) => outcome'.res = TokenFirst(v) /\ InvalidRecordsNothing(v)]_vars

\* C6 as stated: the order is Busy, Duplicate, InvalidToken, TimeAnomaly, TooSoon.
GuardOrderAsStated ==
    [][\A v \in ScanValues :
          SimulateScan(v) => outcome'.res = TokenThird(v) /\ (v # QR_CONSTANT => users' = users)]_vars

\* An invalid token has been rejected as such inside the rate-limit window.
WitInvalidWhileBusy ==
    /\ outcome = ResultAt("checkIn", "INVALID", clock)
    /\ lastActionRef # 0
    /\ clock - lastActionRef < BUSY_WINDOW_MS
    /\ clock >= lastActionRef

\* The same token as the recorded one, presented elapsed ticks after it.
SameTokenAfter(v, lo, hi) ==
    /\ v = QR_CONSTANT
    /\ lastScanValRef = v
    /\ lo <= clock - lastScanTsRef
    /\ clock - lastScanTsRef < hi

\* C7, amended: an attempt fails with Duplicate exactly when its token is the
\* token of the last attempt that got past the Busy and Duplicate guards and that
\* attempt was made at least 1200 ms and less than 2500 ms earlier; less than
\* 1200 ms after it the attempt fails with Busy instead.
DuplicateWindow ==
    [][\A v \in ScanValues :
          SimulateScan(v) =>
              /\ outcome'.res = "DUPLICATE" <=>
                     SameTokenAfter(v, BUSY_WINDOW_MS, DUPLICATE_WINDOW_MS)
              /\ SameTokenAfter(v, 0, BUSY_WINDOW_MS) => outcome'.res = "BUSY"]_vars

\* C7 as stated: the same token as the immediately prior attempt, less than
\* 2500 ms after it, fails with Duplicate whatever the spacing.
DuplicateWindowAsStated ==
    [][\A v \in ScanValues :
          (/\ SimulateScan(v)
           /\ outcome.op = "checkIn"
           /\ outcome.at = lastScanTsRef
           /\ SameTokenAfter(v, 0, DUPLICATE_WINDOW_MS))
              => outcome'.res = "DUPLICATE"]_vars

\* A repeated token has been rejected one tick before the duplicate window closes.
WitDuplicate ==
    /\ outcome = ResultAt("checkIn", "DUPLICATE", clock)
    /\ lastScanValRef = QR_CONSTANT
    /\ clock - lastScanTsRef = DUPLICATE_WINDOW_MS - 1

Counted(res) == res \notin {"INVALID", "BUSY", "DUPLICATE"}

\* C8, amended: one timestamp is shared by all users of a page session; it is
\* set to the time of an attempt exactly when the attempt gets past the token,
\* Busy and Duplicate checks, whatever happens to it afterwards, and is kept
\* across logins; a valid-token attempt fails with Busy exactly when it is made
\* less than 1200 ms after that timestamp.
BusyWindow ==
    [][/\ \A v \in ScanValues :
             SimulateScan(v) =>
                 /\ outcome'.res = "BUSY" <=>
                        (v = QR_CONSTANT /\ clock - lastActionRef < BUSY_WINDOW_MS)
                 /\ lastActionRef' = IF Counted(outcome'.res) THEN clock ELSE lastActionRef
       /\ authUserId' # authUserId => lastActionRef' = lastActionRef]_vars

\* C8 as stated: an attempt that reaches performCheckIn fails with Busy exactly
\* when the most recent such attempt, whatever its outcome, was made less than
\* 1200 ms earlier.
BusyWindowAsStated ==
    [][(/\ SimulateScan(QR_CONSTANT)
        /\ outcome.op = "checkIn"
        /\ outcome.res # "INVALID"
        /\ clock >= outcome.at)
           => (outcome'.res = "BUSY" <=> clock - outcome.at < BUSY_WINDOW_MS)]_vars

\* A user without check-ins has been refused as Busy one tick before the window
\* opened by another user's check-in closes.
WitBusyOtherUser ==
    /\ outcome = ResultAt("checkIn", "BUSY", clock)
    /\ LoggedIn
    /\ authUser.checkIns = <<>>
    /\ clock - lastActionRef = BUSY_WINDOW_MS - 1
    /\ \E i \in 1..Len(users) :
          users[i].id # authUserId /\ users[i].lastCheckInAt = lastActionRef

\* C9: an attempt that passes the token, Busy and Duplicate checks, by a user
\* whose latest check-in was made elapsed ms earlier, fails with TooSoon when
\* 0 <= elapsed < 561,600,000 and succeeds when elapsed >= 561,600,000; a user
\* without check-ins is never refused with TooSoon.
IntervalRule ==
    [][\A v \in ScanValues :
          (SimulateScan(v) /\ Counted(outcome'.res)) =>
              LET cis == authUser.checkIns
                  elapsed == clock - cis[Len(cis)].ts
              IN  IF cis = <<>> THEN outcome'.res # "TOO_SOON"
                  ELSE /\ (0 <= elapsed /\ elapsed < (561600000 \div MsPerTick))
                              => outcome'.res = "TOO_SOON"
                       /\ elapsed >= (561600000 \div MsPerTick) => outcome'.res = "OK"]_vars

\* An attempt one tick short of the interval has been refused.
WitTooSoonAtEdge ==
    /\ outcome = ResultAt("checkIn", "TOO_SOON", clock)
    /\ LoggedIn
    /\ authUser.checkIns # <<>>
    /\ clock - authUser.lastCheckInAt = CHECKIN_INTERVAL_MS - 1

AnomalyEntries(log) ==
    Cardinality({k \in 1..Len(log) : log[k].type = "clock.anomaly"})

\* C10: an attempt whose timestamp is earlier than the lastCheckInAt of a user
\* with a prior check-in fails with TimeAnomaly, appends exactly one
\* clock.anomaly audit entry and leaves the user's ledger unchanged, in the local
\* engine and in the remote transaction alike.
ClockAnomalyRule ==
    [][/\ \A v \in ScanValues :
             (/\ SimulateScan(v)
              /\ Counted(outcome'.res)
              /\ HasPrior /\ clock < authUser.lastCheckInAt)
                 => /\ outcome'.res = "TIME_ANOMALY"
                    /\ AnomalyEntries(auditLog') = AnomalyEntries(auditLog) + 1
                    /\ users' = users
       /\ \A uid \in FbUids :
             (/\ FbPerformCheckIn(uid)
              /\ uid \in DOMAIN fbUserDocs
              /\ fbUserDocs[uid].lastCheckInAt # 0
              /\ clock < fbUserDocs[uid].lastCheckInAt)
                 => /\ outcome'.res = "TIME_ANOMALY"
                    /\ AnomalyEntries(auditLog') = AnomalyEntries(auditLog) + 1
                    /\ fbVars' = fbVars]_vars

\* ------------------------------------------------------------ frames
LedgerOf(u) ==
    <<u.checkIns, u.totalCheckIns, u.couponHistory, u.couponsAvailable, u.lastCheckInAt>>

Ledgers(us) == [i \in 1..Len(us) |-> LedgerOf(us[i])]

EntriesOfTypes(log, types) == Cardinality({k \in 1..Len(log) : log[k].type \in types})

EarliestOpen(h) ==
    {i \in 1..Len(h) :
        /\ h[i].redeemedAt = 0
        /\ \A j \in 1..Len(h) : h[j].redeemedAt = 0 => h[i].createdAt <= h[j].createdAt}

\* h2 is h with redeemedAt set on the coupon at position i and nothing else changed.
MarksOnly(h, h2, i) ==
    /\ Len(h2) = Len(h)
    /\ h2[i].redeemedAt # 0
    /\ h2 = [h EXCEPT ![i].redeemedAt = h2[i].redeemedAt]

\* The step appended exactly one audit entry, a coupon.redeem entry naming couponId.
OneRedeemEntry(couponId) ==
    /\ Len(auditLog') = Len(auditLog) + 1
    /\ SubSeq(auditLog', 2, Len(auditLog')) = auditLog
    /\ auditLog'[1].type = "coupon.redeem"
    /\ auditLog'[1].meta.couponId = couponId

\* What a redemption that finds a coupon does to the local user at position k.
LocalRedeemEffect(k) ==
    LET u == users[k]
        w == users'[k]
    IN  /\ Len(users') = Len(users)
        /\ \A j \in 1..Len(users) : j # k => users'[j] = users[j]
        /\ \E i \in EarliestOpen(u.couponHistory) :
              /\ MarksOnly(u.couponHistory, w.couponHistory, i)
              /\ OneRedeemEntry(u.couponHistory[i].id)
        /\ w.couponsAvailable = u.couponsAvailable - 1
        /\ w = [u EXCEPT !.couponHistory = w.couponHistory,
                         !.couponsAvailable = w.couponsAvailable]

\* What a remote redemption that succeeds does to the documents of uid.
RemoteRedeemEffect(uid) ==
    /\ \E i \in EarliestOpen(fbCouponDocs[uid]) :
          /\ MarksOnly(fbCouponDocs[uid], fbCouponDocs'[uid], i)
          /\ OneRedeemEntry(i)
    /\ fbUserDocs'[uid] = [fbUserDocs[uid] EXCEPT !.couponsAvailable = @ - 1]
    /\ fbCheckInDocs' = fbCheckInDocs

HasCoupon(u) == u.couponsAvailable > 0 /\ EarliestOpen(u.couponHistory) # {}

\* C12: a successful redeemCoupon sets redeemedAt on exactly the earliest-created
\* coupon whose redeemedAt is absent, decrements couponsAvailable by exactly one,
\* appends one coupon.redeem audit entry naming that coupon, and leaves every
\* other coupon, the check-ins, totalCheckIns and lastCheckInAt unchanged, in the
\* local engine and in the remote store alike.
RedeemEffect ==
    [][/\ \A id \in UserIds :
             (RedeemOne(id) /\ HasCoupon(users[findUser(users, id)]))
                 => LocalRedeemEffect(findUser(users, id))
       /\ \A c \in FbCallers :
             (FbRedeemTx(c) /\ outcome'.res = "OK")
                 => RemoteRedeemEffect(fbRedeemCall[c].uid)]_vars

\* The local engine in a production build: redeemCoupon alone has that effect.
RedeemEffectLocalOnce ==
    [][\A id \in UserIds :
          (RedeemOne(id) /\ HasCoupon(users[findUser(users, id)]) /\ ~strictMode)
              => LocalRedeemEffect(findUser(users, id))]_vars

\* A local redemption on a user without coupon changes nothing.
LocalNoCouponFrame ==
    \A id \in UserIds :
        (RedeemOne(id) /\ ~HasCoupon(users[findUser(users, id)]))
            => users' = users /\ auditLog' = auditLog

\* A remote redemption that finds no coupon, or a user document with
\* couponsAvailable 0, throws NO_COUPON and writes nothing.
RemoteNoCoupon ==
    /\ \A c \in FbCallers, uid \in FbUids :
          (FbRedeemQuery(c, uid) /\ EarliestOpen(fbCouponDocs[uid]) = {})
              => outcome'.res = "NO_COUPON" /\ fbDocs' = fbDocs /\ auditLog' = auditLog
    /\ \A c \in FbCallers :
          (FbRedeemTx(c) /\ fbUserDocs[fbRedeemCall[c].uid].couponsAvailable = 0)
              => outcome'.res = "NO_COUPON" /\ fbDocs' = fbDocs /\ auditLog' = auditLog

RedeemNoCouponKept == [][LocalNoCouponFrame /\ RemoteNoCoupon]_vars

\* ------------------------------------------------------------ deletion
\* A deletion of a check-in the user does not hold changes nothing.
DeleteNotFoundFrame ==
    \A id \in UserIds :
        DeleteOne(id, StaleCheckInId) => users' = users /\ auditLog' = auditLog

DeleteNotFoundKept == [][DeleteNotFoundFrame]_vars

\* The place of the coupon at position i of h in creation-time order.
RankOf(h, i) ==
    1 + Cardinality({m \in 1..Len(h) :
                        \/ h[m].createdAt < h[i].createdAt
                        \/ (h[m].createdAt = h[i].createdAt /\ m < i)})

\* The audit entries the step has put in front of the log.
Appended == SubSeq(auditLog', 1, Len(auditLog') - Len(auditLog))

\* The coupon ids listed by the coupon.invalidate entries among the entries es.
Invalidated(es) ==
    UNION {{es[k].meta.couponIds[m] : m \in 1..Len(es[k].meta.couponIds)} :
              k \in {n \in 1..Len(es) : es[n].type = "coupon.invalidate"}}

\* The step deletes a check-in that the user id holds.
Deletes(id) == \E ci \in CheckInIdsOf(id) : DeleteOne(id, ci)

DroppedRedeemed(h, keep) ==
    {h[i].id : i \in {m \in 1..Len(h) : RankOf(h, m) > keep /\ h[m].redeemedAt # 0}}

EntriesOfType(es, type) == {k \in 1..Len(es) : es[k].type = type}

\* What a deletion on the user id writes to the audit log.
DeleteAudit(id) ==
    LET u == users[findUser(users, id)]
        w == users'[findUser(users, id)]
        gone == DroppedRedeemed(u.couponHistory, Len(w.checkIns) \div COUPON_MODULO)
    IN  /\ Cardinality(EntriesOfType(Appended, "checkin.delete")) = 1
        /\ IF gone = {}
           THEN EntriesOfType(Appended, "coupon.invalidate") = {}
           ELSE /\ Cardinality(EntriesOfType(Appended, "coupon.invalidate")) = 1
                /\ Invalidated(Appended) = gone
                /\ \A k \in EntriesOfType(Appended, "coupon.invalidate") :
                      Len(Appended[k].meta.couponIds) = Cardinality(gone)

\* C16: a deleteCheckIn that drops coupons beyond position floor(newTotal/5)
\* emits exactly one coupon.invalidate entry listing exactly the ids of the
\* dropped redeemed coupons if there is one, and none otherwise; every
\* successful deleteCheckIn emits exactly one checkin.delete entry.
DeleteAuditOnce ==
    [][\A id \in UserIds : Deletes(id) => DeleteAudit(id)]_vars

\* The part of C16 the code keeps: the entries of a deletion in a production build.
DeleteAuditOnceInProduction ==
    [][\A id \in UserIds : (Deletes(id) /\ ~strictMode) => DeleteAudit(id)]_vars

\* In a production build a deletion has just dropped a redeemed coupon and
\* written its coupon.invalidate entry before the checkin.delete entry.
WitInvalidated ==
    /\ ~strictMode
    /\ Newest("checkin.delete")
    /\ Len(auditLog) >= 2
    /\ auditLog[2].type = "coupon.invalidate"
    /\ LoggedIn
    /\ authUser.totalCheckIns = COUPON_MODULO - 1
    /\ authUser.couponHistory = <<>>

\* ------------------------------------------------------------ remote redemption
\* No fbRedeemCoupon call is between its query and its transaction.
Quiescent == \A c \in FbCallers : fbRedeemCall[c] = NoCall

\* C17: for any interleaving of concurrent fbRedeemCoupon calls on the same
\* user, each call that succeeds marks a coupon document that was unredeemed
\* until then, so that once the calls are over the user document's
\* couponsAvailable is the number of the user's coupon documents without
\* redeemedAt.
RemoteRedeemSerializable ==
    /\ [](Quiescent =>
             \A uid \in DOMAIN fbUserDocs :
                 fbUserDocs[uid].couponsAvailable = unredeemedCount(fbCouponDocs[uid]))
    /\ [][\A c \in FbCallers :
             (FbRedeemTx(c) /\ outcome'.res = "OK") =>
                 fbCouponDocs[fbRedeemCall[c].uid][fbRedeemCall[c].target].redeemedAt = 0]_vars

\* The addresses typed into the forms that spell one address in different case.
SameAddress ==
    {{"shawn@tjspecialty.com", "SHAWN@TJSPECIALTY.COM"},
     {"jodi@tjspecialty.com", "JODI@TJSPECIALTY.COM"},
     {"pat@example.com", "Pat@Example.com"}}

SameEmail(a, b) == a = b \/ \E S \in SameAddress : a \in S /\ b \in S

EmailTaken(email) == \E i \in 1..Len(users) : SameEmail(users[i].email, email)

\* What a registration that goes through does to the users and the audit log.
UserCreated(email) ==
    LET nu == users'[Len(users')]
    IN  /\ outcome'.res = "OK"
        /\ Len(users') = Len(users) + 1
        /\ SubSeq(users', 1, Len(users)) = users
        /\ nu.email = email /\ nu.isActive /\ ~nu.isAdmin
        /\ LedgerOf(nu) = <<<<>>, 0, <<>>, 0, 0>>
        /\ Len(Appended) = 1
        /\ Appended[1].type = "user.create"
        /\ Appended[1].meta = [userId |-> nu.id, email |-> email]
        /\ SubSeq(auditLog', 2, Len(auditLog')) = auditLog

\* C18: addUser fails with 'Email already exists.' and leaves users and audit
\* log unchanged whenever an existing user's email equals the new one ignoring
\* case; otherwise it appends one active non-admin user with zeroed ledger
\* fields and writes one user.create entry; no two users ever share an email
\* ignoring case.
AddUserRule ==
    /\ [](\A i, j \in 1..Len(users) : i # j => ~SameEmail(users[i].email, users[j].email))
    /\ [][\A e \in RegisterEmails, n \in RegisterNames :
            AddUser(e, "123456", n) =>
                IF EmailTaken(e)
                THEN /\ outcome'.res = "Email already exists."
                     /\ users' = users
                     /\ auditLog' = auditLog
                ELSE UserCreated(e)]_vars

\* A registration was refused while only the seed users exist: the address
\* typed differs from a seed user's only in case.
WitDuplicateInCase ==
    /\ outcome = Result("register", "Email already exists.")
    /\ users = createSeedUsers

\* The records other than the one at position t are what they were.
OthersKept(t) ==
    /\ Len(users') = Len(users)
    /\ \A k \in 1..Len(users) : k # t => users'[k] = users[k]

\* What the account buttons do to the record the panel shows for the id.
AccountEffect(id) ==
    LET t == findUser(users, id)
    IN  /\ SoftDeleteUser(id) =>
              users'[t] = [users[t] EXCEPT !.isActive = FALSE] /\ OthersKept(t)
        /\ RestoreUser(id) =>
              users'[t] = [users[t] EXCEPT !.isActive = TRUE] /\ OthersKept(t)
        /\ \A txt \in RenameTexts :
              RenameUser(id, txt) =>
                  users'[t] = [users[t] EXCEPT !.displayName = trim(txt)] /\ OthersKept(t)

RankedActive == \A k \in 1..Len(top(users)) : top(users)[k].isActive

\* C19: softDeleteUser and restoreUser change only the target user's isActive
\* flag and renameUser only its displayName: the target's ledger fields and
\* every other user's record are unchanged, no user is removed, and a user
\* with isActive false never appears in the leaderboard ranking.
AccountFrame ==
    /\ []RankedActive
    /\ [][\A id \in UserIds : AccountEffect(id)]_vars

\* The id is carried by one record only.
SoleHolder(id) == Cardinality({k \in 1..Len(users) : users[k].id = id}) = 1

\* The part of C19 that holds: the same effect for an id that one record
\* carries, and the ranking without inactive users.
AccountFrameSoleHolder ==
    /\ []RankedActive
    /\ [][\A id \in UserIds : SoleHolder(id) => AccountEffect(id)]_vars

\* The most entries the audit log keeps.
AuditCap == AUDIT_KEEP + 1

\* The step puts n entries in front of the log and keeps the most recent old
\* entries, unchanged and in order, as far as the cap allows.
PutInFront(n) ==
    /\ Len(auditLog') = Min(Len(auditLog) + n, AuditCap)
    /\ SubSeq(auditLog', n + 1, Len(auditLog')) = SubSeq(auditLog, 1, Len(auditLog') - n)
    /\ \A k \in 1..n : \A m \in 1..Len(auditLog) : auditLog'[k].id # auditLog[m].id

\* C20: the audit log never holds more than 500 entries; a step that appends
\* to a full log evicts exactly as many of the oldest entries as it appends;
\* every retained entry keeps its type, metadata, timestamp and actor and its
\* relative order.
AuditRetention ==
    /\ [](Len(auditLog) <= AuditCap)
    /\ [][auditLog' # auditLog => \E n \in 1..2 : PutInFront(n)]_vars

\* The log is full and the first entry ever written has been evicted.
WitEvicted ==
    /\ Len(auditLog) = AuditCap
    /\ auditLog[Len(auditLog)].id.n > Len(seedAdmins) + 2

\* The positions of the check-in id in a sequence of check-ins.
Holding(cis, ci) == {k \in 1..Len(cis) : cis[k].id = ci}

\* The sequence without its k-th element.
Without(cis, k) == SubSeq(cis, 1, k - 1) \o SubSeq(cis, k + 1, Len(cis))

\* The deletion of the check-in id takes exactly one check-in out of the
\* logged-in user's sequence and leaves the others in their order.
RemovesOne(ci) ==
    LET u == users[findUser(users, authUserId)]
        w == users'[findUser(users, authUserId)]
    IN  /\ w.totalCheckIns = u.totalCheckIns - 1
        /\ \E k \in Holding(u.checkIns, ci) : w.checkIns = Without(u.checkIns, k)

DistinctCheckInIds ==
    \A i \in 1..Len(users) :
        \A k, m \in 1..Len(users[i].checkIns) :
            k # m => users[i].checkIns[k].id # users[i].checkIns[m].id

\* C21: a successful deleteCheckIn removes exactly the named check-in:
\* totalCheckIns decreases by exactly 1 and the other check-ins keep their
\* order, also after reloads (which restart the id counter) and further
\* check-ins; the check-in ids of a user are pairwise distinct.
DeleteRemovesOne ==
    /\ []DistinctCheckInIds
    /\ [][\A ci \in OwnCheckInIds : DeleteOne(authUserId, ci) => RemovesOne(ci)]_vars

\* The part of C21 that holds: a deletion of an id that one check-in of the
\* user carries removes exactly that check-in.
DeleteRemovesOneSoleHolder ==
    [][\A ci \in OwnCheckInIds :
          (DeleteOne(authUserId, ci) /\ Cardinality(Holding(authUser.checkIns, ci)) = 1)
              => RemovesOne(ci)]_vars

DistinctUserIds == \A i, j \in 1..Len(users) : i # j => users[i].id # users[j].id

\* The records the step changes.
Changed == {k \in 1..Min(Len(users), Len(users')) : users'[k] # users[k]}

\* The step is one of the operations addressed to a user id.
Addressed ==
    \/ SimulateScan(QR_CONSTANT)
    \/ \E id \in UserIds : SoftDeleteUser(id) \/ RestoreUser(id)
    \/ \E id \in UserIds, t \in RenameTexts : RenameUser(id, t)

\* C22: user ids are pairwise distinct in every reachable state, also for users
\* added by addUser after a reload (id counter restarted); hence every ledger
\* or lifecycle operation addressed to one user id changes at most one record.
UserIdsDistinct ==
    /\ []DistinctUserIds
    /\ [][Addressed => Cardinality(Changed) <= 1]_vars

\* The part of C22 that holds: while the user ids are pairwise distinct an
\* operation addressed to a user id changes at most one record.
AddressedSoleHolder ==
    [][(Addressed /\ DistinctUserIds) => Cardinality(Changed) <= 1]_vars

\* Every redeemed coupon of the local users that the step retains (a coupon
\* with its id is in the same user's history afterwards) keeps its redeemedAt.
LocalStampsKept ==
    \A i \in 1..Min(Len(users), Len(users')) :
        \A k \in 1..Len(users[i].couponHistory) :
            users[i].couponHistory[k].redeemedAt # 0 =>
                \A m \in 1..Len(users'[i].couponHistory) :
                    users'[i].couponHistory[m].id = users[i].couponHistory[k].id =>
                        users'[i].couponHistory[m].redeemedAt = users[i].couponHistory[k].redeemedAt

\* Every redeemed coupon document keeps its redeemedAt.
RemoteStampsKept ==
    \A uid \in FbUids :
        \A k \in 1..Len(fbCouponDocs[uid]) :
            fbCouponDocs[uid][k].redeemedAt # 0 =>
                fbCouponDocs'[uid][k].redeemedAt = fbCouponDocs[uid][k].redeemedAt

\* C23: redemption is irreversible and write-once: once a coupon's redeemedAt
\* is set, it is set to the same value in every later state in which the
\* coupon is retained; no check-in, deletion or redemption un-redeems or
\* re-stamps a retained coupon.
RedeemWriteOnce == [][LocalStampsKept /\ RemoteStampsKept]_vars

\* The part of C23 that holds: the local redeemCoupon, performCheckIn and
\* deleteCheckIn never change the redeemedAt of a retained coupon.
RedeemWriteOnceLocal == [][LocalStampsKept]_vars

\* What a committed check-in of uid writes: one more check-in, one check-in
\* document, and a coupon document with the couponsAvailable increment exactly
\* when the new total is a multiple of 5; not before an interval has passed
\* since the check-in before.
RemoteCheckInEffect(uid) ==
    LET u == fbUserDocs[uid]
        w == fbUserDocs'[uid]
        due == w.totalCheckIns % COUPON_MODULO = 0
    IN  /\ w.totalCheckIns = u.totalCheckIns + 1
        /\ Len(fbCheckInDocs'[uid]) = Len(fbCheckInDocs[uid]) + 1
        /\ SubSeq(fbCheckInDocs'[uid], 1, Len(fbCheckInDocs[uid])) = fbCheckInDocs[uid]
        /\ Len(fbCouponDocs'[uid]) = Len(fbCouponDocs[uid]) + (IF due THEN 1 ELSE 0)
        /\ SubSeq(fbCouponDocs'[uid], 1, Len(fbCouponDocs[uid])) = fbCouponDocs[uid]
        /\ w.couponsAvailable = u.couponsAvailable + (IF due THEN 1 ELSE 0)
        /\ u.lastCheckInAt = 0 \/ w.lastCheckInAt - u.lastCheckInAt >= CHECKIN_INTERVAL_MS

\* No update is lost and no coupon duplicated: the documents agree.
RemoteLedger ==
    \A uid \in DOMAIN fbUserDocs :
        /\ fbUserDocs[uid].totalCheckIns = Len(fbCheckInDocs[uid])
        /\ Len(fbCouponDocs[uid]) = fbUserDocs[uid].totalCheckIns \div COUPON_MODULO
        /\ fbUserDocs[uid].couponsAvailable = Len(fbCouponDocs[uid])
        /\ \A k \in 2..Len(fbCheckInDocs[uid]) :
              fbCheckInDocs[uid][k].ts - fbCheckInDocs[uid][k - 1].ts >= CHECKIN_INTERVAL_MS

\* C24: for any interleaving of concurrent fbPerformCheckIn calls on one user
\* at most one succeeds per check-in interval, each success adds exactly one
\* to totalCheckIns and one checkIns document, and a coupon document comes
\* with the couponsAvailable increment exactly when the new total is a
\* multiple of 5; a call that does not succeed writes nothing.
RemoteCheckInSerializable ==
    /\ []RemoteLedger
    /\ [][\A c \in FbCallers :
             FbCheckInCommit(c) =>
                 IF outcome'.res = "OK"
                 THEN RemoteCheckInEffect(fbCheckInCall[c].uid)
                 ELSE UNCHANGED fbDocs]_vars

\* Two calls overlapped on the fifth check-in: one committed and created the
\* coupon, the other found the document changed, ran again and was refused.
WitOverlapOnFifth ==
    /\ outcome.op = "fbCheckInRetry" /\ outcome.res = "TOO_SOON"
    /\ fbUserDocs["uid-a"].totalCheckIns = COUPON_MODULO
    /\ Len(fbCouponDocs["uid-a"]) = 1
    /\ fbUserDocs["uid-a"].lastCheckInAt = outcome.at

CouponsOf(h) == {h[k] : k \in 1..Len(h)}

\* C25: from a fresh user, under any sequence of performCheckIn, deleteCheckIn
\* and redeemCoupon, deleteCheckIn never creates a coupon: floor(newTotal/5)
\* never exceeds the number of coupons the user holds, so every coupon of the
\* rebuilt history was in the history before the deletion.
DeleteCreatesNoCoupon ==
    [][\A id \in UserIds :
          Deletes(id) =>
              LET u == users[findUser(users, id)]
                  w == users'[findUser(users, id)]
              IN  /\ targetCouponCount(Len(w.checkIns)) <= Len(u.couponHistory)
                  /\ CouponsOf(w.couponHistory) \subseteq CouponsOf(u.couponHistory)
                  /\ idCounter' = idCounter + Len(Appended)]_vars

\* A deletion has left five check-ins to a user who held one unredeemed coupon:
\* the target count equals the number of coupons held and the coupon is kept.
WitTargetMet ==
    /\ outcome = Result("delete", "OK")
    /\ Newest("checkin.delete")
    /\ LoggedIn
    /\ authUser.totalCheckIns = COUPON_MODULO
    /\ Len(authUser.couponHistory) = 1
    /\ authUser.couponHistory[1].redeemedAt = 0

\* C26: in every reachable state a user's check-ins are in order of
\* non-decreasing timestamp and any two adjacent check-ins are at least one
\* check-in interval (561,600,000 ms) apart, after any sequence of check-ins
\* and deletions.
CheckInsSpaced ==
    \A i \in 1..Len(users) :
        \A k \in 2..Len(users[i].checkIns) :
            users[i].checkIns[k].ts - users[i].checkIns[k - 1].ts >= CHECKIN_INTERVAL_MS

\* The middle one of three check-ins was deleted while the clock was set back
\* to before the last one; the two check-ins left are two intervals apart.
WitMiddleDeletedSetBack ==
    /\ outcome = Result("delete", "OK")
    /\ LoggedIn
    /\ Len(authUser.checkIns) = 2
    /\ authUser.checkIns[2].ts - authUser.checkIns[1].ts >= 2 * CHECKIN_INTERVAL_MS
    /\ clock < authUser.checkIns[2].ts

====
